---- MODULE Spec2Model ----
(***************************************************************************)
(* PackStream v1 codec (packstream-v1.js): the Packer, the Unpacker, the   *)
(* closures Packer.packable returns, and the channel / buffer they drive.  *)
(*                                                                         *)
(* Representation of host values (every value is a record with a tag t):   *)
(*   null, undefined, bool, number (a host double), bigint, integer (the   *)
(*   lossless Integer with 32-bit words high and low), string (a sequence  *)
(*   of code points), bytes (an Int8Array: signed bytes), array, iterable  *)
(*   (a non-array iterable with the items it yields, or one whose          *)
(*   iteration throws), struct (Structure), map (a plain object: its own   *)
(*   keys in Object.keys order), function (a value no branch accepts).     *)
(* TLC integers are 32 bits wide: a 64-bit integer is its two signed       *)
(* 32-bit words, as in Integer, and a header size is two 16-bit limbs.     *)
(***************************************************************************)
EXTENDS Integers, Sequences, FiniteSets, TLC

\* ---------------------------------------------------------------- markers
TINY_STRING == 128
TINY_LIST == 144
TINY_MAP == 160
TINY_STRUCT == 176
NULL == 192
FLOAT_64 == 193
FALSE_ == 194
TRUE_ == 195
INT_8 == 200
INT_16 == 201
INT_32 == 202
INT_64 == 203
STRING_8 == 208
STRING_16 == 209
STRING_32 == 210
LIST_8 == 212
LIST_16 == 213
LIST_32 == 214
BYTES_8 == 204
BYTES_16 == 205
BYTES_32 == 206
MAP_8 == 216
MAP_16 == 217
MAP_32 == 218
STRUCT_8 == 220
STRUCT_16 == 221

\* error codes: error.PROTOCOL_ERROR, the code of an exception a hook throws,
\* and the code of the buffer's error on a read past its end
PROTOCOL_ERROR == "ProtocolError"
HOOK_ERROR == "HookError"
BUFFER_ERROR == "BufferError"
NoError == "none"

\* ------------------------------------------------------------ host values
Null == [t |-> "null"]
Undefined == [t |-> "undefined"]
Bool(b) == [t |-> "bool", b |-> b]
Function == [t |-> "function"]
\* Integer(low, high): two signed 32-bit words
Integer(low, high) == [t |-> "integer", high |-> high, low |-> low]
BigInt(low, high) == [t |-> "bigint", high |-> high, low |-> low]
\* a host double holding the integer high * 2^32 + low (inf = 0), +Infinity
\* (inf = 1), -Infinity (inf = -1) or any other double (inf = 2)
Number(low, high, inf) == [t |-> "number", high |-> high, low |-> low, inf |-> inf]
Str(cps) == [t |-> "string", s |-> cps]
Bytes(a) == [t |-> "bytes", a |-> a]
Array(xs) == [t |-> "array", xs |-> xs]
\* an iterable that is no array: ok = FALSE when iterating it throws
Iterable(xs, ok) == [t |-> "iterable", xs |-> xs, ok |-> ok]
Structure(signature, fields) ==
  [t |-> "struct", signature |-> signature, fields |-> fields]
\* a plain object: keys (code-point sequences) and vals, index by index
Map(keys, vals) == [t |-> "map", keys |-> keys, vals |-> vals]

MinInt32 == -2147483647 - 1
MaxInt32 == -(MinInt32 + 1)

\* a small host number n (|n| < 2^31) as a double
Num(n) == Number(n, IF n < 0 THEN -1 ELSE 0, 0)

\* ------------------------------------------------------------ I64 helper
\* int(n) / Integer.fromNumber for a number in the 32-bit range
int(n) == Integer(n, IF n < 0 THEN -1 ELSE 0)
\* int(0x80000000): low word 0x80000000 | 0, high word 0
int_0x80000000 == Integer(MinInt32, 0)
\* int(x) for a bigint in the 64-bit range
intOfBigInt(x) == Integer(x.low, x.high)

\* a < b for two low words read as unsigned 32-bit numbers
UnsignedLess(a, b) ==
  \/ a >= 0 /\ b < 0
  \/ (a >= 0) = (b >= 0) /\ a < b

lessThan(x, y) ==
  \/ x.high < y.high
  \/ x.high = y.high /\ UnsignedLess(x.low, y.low)

greaterThanOrEqual(x, y) == ~lessThan(x, y)

greaterThan(x, y) == lessThan(y, x)

\* Integer.MAX_SAFE_VALUE = 2^53 - 1, Integer.MIN_SAFE_VALUE = -(2^53 - 1)
MAX_SAFE_VALUE == Integer(-1, 2097151)
MIN_SAFE_VALUE == Integer(1, -2097152)

toNumber(x) == Number(x.low, x.high, 0)

toNumberOrInfinity(x) ==
  IF lessThan(x, MIN_SAFE_VALUE) THEN Number(0, 0, -1)
  ELSE IF greaterThan(x, MAX_SAFE_VALUE) THEN Number(0, 0, 1)
  ELSE toNumber(x)

toBigInt(x) == BigInt(x.low, x.high)

isInt(x) == x.t = "integer"

\* ------------------------------------------------------ channel (writes)
\* each write is the sequence of bytes it appends to the channel
writeUInt8(b) == <<b>>

writeInt8(v) == <<v % 256>>

writeInt16(v) == <<(v \div 256) % 256, v % 256>>

writeInt32(v) ==
  <<(v \div 16777216) % 256, (v \div 65536) % 256, (v \div 256) % 256, v % 256>>

writeBytes(bytes) == bytes

\* floor(log2(m)) for 1 <= m < 2^20
RECURSIVE Log2(_)
Log2(m) == IF m < 2 THEN 0 ELSE 1 + Log2(m \div 2)

RECURSIVE Pow2(_)
Pow2(e) == IF e = 0 THEN 1 ELSE 2 * Pow2(e - 1)

\* the IEEE 754 binary64 image, big-endian, of an integer-valued double of
\* magnitude below 2^20, and of the two infinities
writeFloat64(x) ==
  IF x.inf = 1 THEN <<127, 240, 0, 0, 0, 0, 0, 0>>
  ELSE IF x.inf = -1 THEN <<255, 240, 0, 0, 0, 0, 0, 0>>
  ELSE IF x.low = 0 THEN <<0, 0, 0, 0, 0, 0, 0, 0>>
  ELSE LET m == IF x.low < 0 THEN -x.low ELSE x.low
           sign == IF x.low < 0 THEN 128 ELSE 0
           e == Log2(m)
           bexp == e + 1023
           frac == (m - Pow2(e)) * Pow2(20 - e)
       IN <<sign + (bexp \div 16), ((bexp % 16) * 16) + (frac \div 65536),
            (frac \div 256) % 256, frac % 256, 0, 0, 0, 0>>

\* utf8.encode of one code point and of a string
utf8Char(c) ==
  IF c < 128 THEN <<c>>
  ELSE IF c < 2048 THEN <<192 + (c \div 64), 128 + (c % 64)>>
  ELSE <<224 + (c \div 4096), 128 + ((c \div 64) % 64), 128 + (c % 64)>>

RECURSIVE utf8Range(_, _, _)
utf8Range(s, lo, hi) ==
  IF lo > hi THEN <<>>
  ELSE IF lo = hi THEN utf8Char(s[lo])
  ELSE LET mid == (lo + hi) \div 2
       IN utf8Range(s, lo, mid) \o utf8Range(s, mid + 1, hi)

utf8Encode(s) == utf8Range(s, 1, Len(s))

\* --------------------------------------------------------------- sizes
\* a size n = hi * 65536 + lo
Size(n) == [hi |-> n \div 65536, lo |-> n % 65536]

\* size < 0x10, 0x100, 0x10000, 0x100000000
SizeLess(size, hi, lo) == size.hi < hi \/ (size.hi = hi /\ size.lo < lo)

\* (size / 256) >> 0, in the branch where size < 0x10000
Div256(size) == (size.hi * 256) + (size.lo \div 256)

\* ((size / 256^k) >> 0) % 256
ByteOf(size, k) ==
  CASE k = 0 -> size.lo % 256
    [] k = 1 -> (size.lo \div 256) % 256
    [] k = 2 -> size.hi % 256
    [] k = 3 -> (size.hi \div 256) % 256

\* ---------------------------------------------------------------- Packer
\* what a Packer method did: the bytes it wrote before it returned or threw,
\* the code of the error it threw (NoError when it returned), and how many
\* times the dehydration hook ran
Done(out) == [out |-> out, err |-> NoError, calls |-> 0]
Thrown(out, code) == [out |-> out, err |-> code, calls |-> 0]

\* newError(message, code): the code handed over, or the default one
DEFAULT_CODE == PROTOCOL_ERROR
newError(code) == IF code = "undefined" THEN DEFAULT_CODE ELSE code

\* packInteger with the INT_8 range opened at -0x80: -128 leaves as INT_16
packInteger_open8(x) ==
  LET high == x.high
      low == x.low
  IN IF greaterThanOrEqual(x, int(-16)) /\ lessThan(x, int(128))
       THEN Done(writeInt8(low))
     ELSE IF greaterThan(x, int(-128)) /\ lessThan(x, int(-16))
       THEN Done(writeUInt8(INT_8) \o writeInt8(low))
     ELSE IF greaterThanOrEqual(x, int(-32768)) /\ lessThan(x, int(32768))
       THEN Done(writeUInt8(INT_16) \o writeInt16(low))
     ELSE IF greaterThanOrEqual(x, int(MinInt32)) /\ lessThan(x, int_0x80000000)
       THEN Done(writeUInt8(INT_32) \o writeInt32(low))
     ELSE Done(writeUInt8(INT_64) \o writeInt32(high) \o writeInt32(low))

packInteger(x) ==
  LET high == x.high
      low == x.low
  IN IF greaterThanOrEqual(x, int(-16)) /\ lessThan(x, int(128))
       THEN Done(writeInt8(low))
     ELSE IF greaterThanOrEqual(x, int(-128)) /\ lessThan(x, int(-16))
       THEN Done(writeUInt8(INT_8) \o writeInt8(low))
     ELSE IF greaterThanOrEqual(x, int(-32768)) /\ lessThan(x, int(32768))
       THEN Done(writeUInt8(INT_16) \o writeInt16(low))
     ELSE IF greaterThanOrEqual(x, int(MinInt32)) /\ lessThan(x, int_0x80000000)
       THEN Done(writeUInt8(INT_32) \o writeInt32(low))
     ELSE Done(writeUInt8(INT_64) \o writeInt32(high) \o writeInt32(low))

\* packFloat sending an integral number as an Integer
packFloat_asInteger(x) == packInteger(int(x.low))

packFloat(x) == Done(writeUInt8(FLOAT_64) \o writeFloat64(x))

\* packString once bytes and size are known
packStringSized(size, bytes) ==
  IF SizeLess(size, 0, 16)
    THEN Done(writeUInt8(TINY_STRING + size.lo) \o writeBytes(bytes))
  ELSE IF SizeLess(size, 0, 256)
    THEN Done(writeUInt8(STRING_8) \o writeUInt8(size.lo) \o writeBytes(bytes))
  ELSE IF SizeLess(size, 1, 0)
    THEN Done(writeUInt8(STRING_16) \o writeUInt8(Div256(size))
              \o writeUInt8(ByteOf(size, 0)) \o writeBytes(bytes))
  ELSE IF SizeLess(size, 65536, 0)
    THEN Done(writeUInt8(STRING_32) \o writeUInt8(ByteOf(size, 3))
              \o writeUInt8(ByteOf(size, 2)) \o writeUInt8(ByteOf(size, 1))
              \o writeUInt8(ByteOf(size, 0)) \o writeBytes(bytes))
  ELSE Thrown(<<>>, newError("undefined"))

packString(x) ==
  LET bytes == utf8Encode(x)
  IN packStringSized(Size(Len(bytes)), bytes)

packListHeader(size) ==
  IF SizeLess(size, 0, 16) THEN Done(writeUInt8(TINY_LIST + size.lo))
  ELSE IF SizeLess(size, 0, 256)
    THEN Done(writeUInt8(LIST_8) \o writeUInt8(size.lo))
  ELSE IF SizeLess(size, 1, 0)
    THEN Done(writeUInt8(LIST_16) \o writeUInt8(ByteOf(size, 1))
              \o writeUInt8(ByteOf(size, 0)))
  ELSE IF SizeLess(size, 65536, 0)
    THEN Done(writeUInt8(LIST_32) \o writeUInt8(ByteOf(size, 3))
              \o writeUInt8(ByteOf(size, 2)) \o writeUInt8(ByteOf(size, 1))
              \o writeUInt8(ByteOf(size, 0)))
  ELSE Thrown(<<>>, newError("undefined"))

packBytesHeader(size) ==
  IF SizeLess(size, 0, 256)
    THEN Done(writeUInt8(BYTES_8) \o writeUInt8(size.lo))
  ELSE IF SizeLess(size, 1, 0)
    THEN Done(writeUInt8(BYTES_16) \o writeUInt8(ByteOf(size, 1))
              \o writeUInt8(ByteOf(size, 0)))
  ELSE IF SizeLess(size, 65536, 0)
    THEN Done(writeUInt8(BYTES_32) \o writeUInt8(ByteOf(size, 3))
              \o writeUInt8(ByteOf(size, 2)) \o writeUInt8(ByteOf(size, 1))
              \o writeUInt8(ByteOf(size, 0)))
  ELSE Thrown(<<>>, newError("undefined"))

\* packMapHeader writing the two size bytes of MAP_16 low byte first
packMapHeader_lowFirst(size) ==
  IF SizeLess(size, 0, 16) THEN Done(writeUInt8(TINY_MAP + size.lo))
  ELSE IF SizeLess(size, 0, 256)
    THEN Done(writeUInt8(MAP_8) \o writeUInt8(size.lo))
  ELSE IF SizeLess(size, 1, 0)
    THEN Done(writeUInt8(MAP_16) \o writeUInt8(ByteOf(size, 0))
              \o writeUInt8(Div256(size)))
  ELSE IF SizeLess(size, 65536, 0)
    THEN Done(writeUInt8(MAP_32) \o writeUInt8(ByteOf(size, 3))
              \o writeUInt8(ByteOf(size, 2)) \o writeUInt8(ByteOf(size, 1))
              \o writeUInt8(ByteOf(size, 0)))
  ELSE Thrown(<<>>, newError("undefined"))

packMapHeader(size) ==
  IF SizeLess(size, 0, 16) THEN Done(writeUInt8(TINY_MAP + size.lo))
  ELSE IF SizeLess(size, 0, 256)
    THEN Done(writeUInt8(MAP_8) \o writeUInt8(size.lo))
  ELSE IF SizeLess(size, 1, 0)
    THEN Done(writeUInt8(MAP_16) \o writeUInt8(Div256(size))
              \o writeUInt8(ByteOf(size, 0)))
  ELSE IF SizeLess(size, 65536, 0)
    THEN Done(writeUInt8(MAP_32) \o writeUInt8(ByteOf(size, 3))
              \o writeUInt8(ByteOf(size, 2)) \o writeUInt8(ByteOf(size, 1))
              \o writeUInt8(ByteOf(size, 0)))
  ELSE Thrown(<<>>, newError("undefined"))

packStructHeader(size, signature) ==
  IF SizeLess(size, 0, 16)
    THEN Done(writeUInt8(TINY_STRUCT + size.lo) \o writeUInt8(signature))
  ELSE IF SizeLess(size, 0, 256)
    THEN Done(writeUInt8(STRUCT_8) \o writeUInt8(size.lo) \o writeUInt8(signature))
  ELSE IF SizeLess(size, 1, 0)
    THEN Done(writeUInt8(STRUCT_16) \o writeUInt8(Div256(size))
              \o writeUInt8(ByteOf(size, 0)))
  ELSE Thrown(<<>>, newError("undefined"))

\* the loop of packBytes: writeInt8(array[i]) for every i
writeInt8s(array) == [i \in 1..Len(array) |-> writeInt8(array[i])[1]]

\* packBytes without the gate
packBytes_ungated(array, byteArraysSupported) ==
  LET h == packBytesHeader(Size(Len(array)))
  IN IF h.err # NoError THEN h ELSE Done(h.out \o writeInt8s(array))

packBytes(array, byteArraysSupported) ==
  IF byteArraysSupported
    THEN LET h == packBytesHeader(Size(Len(array)))
         IN IF h.err # NoError THEN h ELSE Done(h.out \o writeInt8s(array))
  ELSE Thrown(<<>>, newError("undefined"))

\* ------------------------------------------------------- Packer.packable
\* the dehydration hooks tried: functional.identity, and a hook that throws
\* on the value Poison and is the identity elsewhere
Poison == Str(<<33>>)
DehydrateHooks == {"identity", "failing"}
dehydrateThrows(dehydrateStruct, x) == dehydrateStruct = "failing" /\ x = Poison
dehydrate(dehydrateStruct, x) == x

\* a function packable returns: () => { throw ex } (k = "throw"), the
\* closure over the Structure's packableFields (k = "struct"), or one of the
\* other arrow functions, which close over x alone (k = "value")
Closure(k, code, x, packableFields) ==
  [k |-> k, code |-> code, x |-> x, packableFields |-> packableFields]
NoClosure == Closure("none", NoError, Null, <<>>)
ThrowClosure(code) == Closure("throw", code, Null, <<>>)

\* _nonPackableValue throwing an error that carries another code
nonPackableValue_uncoded == ThrowClosure("Error")

\* _nonPackableValue(message): a function that throws a PROTOCOL_ERROR
nonPackableValue == ThrowClosure(newError(PROTOCOL_ERROR))

\* what packable did: the function it returned (NoClosure when it threw),
\* the code of the error it threw, and how many times the hook ran
Created(fn, err, calls) == [fn |-> fn, err |-> err, calls |-> calls]

\* r, then (when r did not throw) s: the outputs in order, the first error
Seq2(r, s) ==
  IF r.err # NoError THEN r
  ELSE [out |-> r.out \o s.out, err |-> s.err, calls |-> r.calls + s.calls]

RECURSIVE packable(_, _), packableFieldsOf(_, _, _, _, _), call(_, _, _)
RECURSIVE packStructFields(_, _, _, _, _, _), packElements(_, _, _, _, _, _)
RECURSIVE packEntries(_, _, _, _, _, _)

\* the loop of packable's Structure branch, over the fields lo..hi (halved
\* to keep the evaluation shallow; the fields are taken in order)
packableFieldsOf(x, lo, hi, dehydrateStruct, acc) ==
  IF lo > hi \/ acc.err # NoError THEN acc
  ELSE IF lo = hi
    THEN LET c == packable(x.fields[lo], dehydrateStruct)
         IN IF c.err # NoError
              THEN Created(NoClosure, c.err, acc.calls + c.calls)
            ELSE Created(Closure("struct", NoError, x,
                                 Append(acc.fn.packableFields, c.fn)),
                         NoError, acc.calls + c.calls)
  ELSE LET mid == (lo + hi) \div 2
           a == packableFieldsOf(x, lo, mid, dehydrateStruct, acc)
       IN packableFieldsOf(x, mid + 1, hi, dehydrateStruct, a)

\* the hook's exception let through by packable
caught_rethrown == Created(NoClosure, HOOK_ERROR, 1)

\* catch (ex) { return () => { throw ex } }
caught == Created(ThrowClosure(HOOK_ERROR), NoError, 1)

packable(x0, dehydrateStruct) ==
  IF dehydrateThrows(dehydrateStruct, x0) THEN caught
  ELSE LET x == dehydrate(dehydrateStruct, x0)
       IN IF x.t \in {"null", "bool", "number", "string", "bigint", "integer",
                      "bytes", "array", "map"}
            THEN Created(Closure("value", NoError, x, <<>>), NoError, 1)
          ELSE IF x.t = "iterable"
            \* packableIterable
            THEN IF x.ok
                   THEN LET c == packable(Array(x.xs), dehydrateStruct)
                        IN Created(c.fn, c.err, c.calls + 1)
                 ELSE Created(NoClosure, newError("undefined"), 1)
          ELSE IF x.t = "struct"
            THEN LET c == packableFieldsOf(x, 1, Len(x.fields), dehydrateStruct,
                            Created(Closure("struct", NoError, x, <<>>), NoError, 0))
                 IN Created(c.fn, c.err, c.calls + 1)
          ELSE Created(nonPackableValue, NoError, 1)

\* packNow with the hook left out of the nested packable call
packNow_unhooked(x, dehydrateStruct, byteArraysSupported) ==
  LET c == packable(x, "identity")
  IN IF c.err # NoError THEN [out |-> <<>>, err |-> c.err, calls |-> 0]
     ELSE LET r == call(c.fn, "identity", byteArraysSupported)
          IN [out |-> r.out, err |-> r.err, calls |-> 0]

\* packable(x, dehydrateStruct)(): create the function, then call it
packNow(x, dehydrateStruct, byteArraysSupported) ==
  LET c == packable(x, dehydrateStruct)
  IN IF c.err # NoError THEN [out |-> <<>>, err |-> c.err, calls |-> c.calls]
     ELSE LET r == call(c.fn, dehydrateStruct, byteArraysSupported)
          IN [out |-> r.out, err |-> r.err, calls |-> c.calls + r.calls]

\* packStruct's loop, over the fields lo..hi
packStructFields(packableFields, lo, hi, dehydrateStruct, byteArraysSupported, acc) ==
  IF lo > hi \/ acc.err # NoError THEN acc
  ELSE IF lo = hi
    THEN Seq2(acc, call(packableFields[lo], dehydrateStruct, byteArraysSupported))
  ELSE LET mid == (lo + hi) \div 2
           a == packStructFields(packableFields, lo, mid, dehydrateStruct,
                                 byteArraysSupported, acc)
       IN packStructFields(packableFields, mid + 1, hi, dehydrateStruct,
                           byteArraysSupported, a)

packStruct(signature, packableFields, dehydrateStruct, byteArraysSupported) ==
  packStructFields(packableFields, 1, Len(packableFields), dehydrateStruct,
                   byteArraysSupported,
                   packStructHeader(Size(Len(packableFields)), signature))

\* the loop of the Array branch, over the elements lo..hi
packElements(xs, lo, hi, dehydrateStruct, byteArraysSupported, acc) ==
  IF lo > hi \/ acc.err # NoError THEN acc
  ELSE IF lo = hi
    THEN Seq2(acc, packNow(IF xs[lo] = Undefined THEN Null ELSE xs[lo],
                           dehydrateStruct, byteArraysSupported))
  ELSE LET mid == (lo + hi) \div 2
           a == packElements(xs, lo, mid, dehydrateStruct, byteArraysSupported, acc)
       IN packElements(xs, mid + 1, hi, dehydrateStruct, byteArraysSupported, a)

\* the first loop of the object branch: the keys whose value is not undefined
countDefined(vals) == Cardinality({i \in 1..Len(vals) : vals[i] # Undefined})

\* the second loop of the object branch, over the keys lo..hi
packEntries(x, lo, hi, dehydrateStruct, byteArraysSupported, acc) ==
  IF lo > hi \/ acc.err # NoError THEN acc
  ELSE IF lo = hi
    THEN IF x.vals[lo] # Undefined
           THEN Seq2(Seq2(acc, packString(x.keys[lo])),
                     packNow(x.vals[lo], dehydrateStruct, byteArraysSupported))
         ELSE acc
  ELSE LET mid == (lo + hi) \div 2
           a == packEntries(x, lo, mid, dehydrateStruct, byteArraysSupported, acc)
       IN packEntries(x, mid + 1, hi, dehydrateStruct, byteArraysSupported, a)

\* calling a function packable returned
call(fn, dehydrateStruct, byteArraysSupported) ==
  IF fn.k = "throw" THEN Thrown(<<>>, fn.code)
  ELSE IF fn.k = "struct"
    THEN packStruct(fn.x.signature, fn.packableFields, dehydrateStruct,
                    byteArraysSupported)
  ELSE LET x == fn.x
       IN CASE x.t = "null" -> Done(writeUInt8(NULL))
            [] x.t = "bool" -> Done(writeUInt8(IF x.b THEN TRUE_ ELSE FALSE_))
            [] x.t = "number" -> packFloat(x)
            [] x.t = "string" -> packString(x.s)
            [] x.t = "bigint" -> packInteger(intOfBigInt(x))
            [] x.t = "integer" -> packInteger(x)
            [] x.t = "bytes" -> packBytes(x.a, byteArraysSupported)
            [] x.t = "array" ->
                 packElements(x.xs, 1, Len(x.xs), dehydrateStruct,
                              byteArraysSupported, packListHeader(Size(Len(x.xs))))
            [] x.t = "map" ->
                 packEntries(x, 1, Len(x.keys), dehydrateStruct, byteArraysSupported,
                             packMapHeader(Size(countDefined(x.vals))))

\* ------------------------------------------------------ buffer (reads)
\* a read at cursor pos of buffer buf: bytes are unsigned, sizes are limbs
has(buf, pos, n) == pos + n - 1 <= Len(buf)

readUInt8(buf, pos) == Size(buf[pos])

readUInt16(buf, pos) == Size((buf[pos] * 256) + buf[pos + 1])

readUInt32(buf, pos) ==
  [hi |-> (buf[pos] * 256) + buf[pos + 1],
   lo |-> (buf[pos + 2] * 256) + buf[pos + 3]]

signed8(b) == IF b >= 128 THEN b - 256 ELSE b

readInt8(buf, pos) == signed8(buf[pos])

readInt16(buf, pos) == (signed8(buf[pos]) * 256) + buf[pos + 1]

readInt32(buf, pos) ==
  (signed8(buf[pos]) * 16777216) + (buf[pos + 1] * 65536)
    + (buf[pos + 2] * 256) + buf[pos + 3]

\* the double whose IEEE 754 image the next 8 bytes are: an integer of
\* magnitude below 2^20, an infinity, or some other double (inf = 2)
readFloat64(buf, pos) ==
  LET b0 == buf[pos]
      b1 == buf[pos + 1]
      bexp == ((b0 % 128) * 16) + (b1 \div 16)
      frac == ((b1 % 16) * 65536) + (buf[pos + 2] * 256) + buf[pos + 3]
      tail0 == \A k \in 4..7 : buf[pos + k] = 0
      e == bexp - 1023
  IN IF tail0 /\ bexp = 2047 /\ frac = 0
       THEN Number(0, 0, IF b0 >= 128 THEN -1 ELSE 1)
     ELSE IF tail0 /\ bexp = 0 /\ frac = 0 /\ b0 = 0 THEN Num(0)
     ELSE IF tail0 /\ e >= 0 /\ e < 20 /\ frac % Pow2(20 - e) = 0
       THEN LET m == Pow2(e) + (frac \div Pow2(20 - e))
            IN Num(IF b0 >= 128 THEN -m ELSE m)
     ELSE Number(0, 0, 2)

\* utf8.decode(buffer, n) of well-formed UTF-8: one code point per lead byte
utf8CharAt(bytes, i) ==
  LET b == bytes[i]
  IN IF b >= 224 /\ i + 2 <= Len(bytes)
       THEN ((b - 224) * 4096) + ((bytes[i + 1] % 64) * 64) + (bytes[i + 2] % 64)
     ELSE IF b >= 192 /\ i + 1 <= Len(bytes)
       THEN ((b - 192) * 64) + (bytes[i + 1] % 64)
     ELSE b

utf8Decode(bytes) ==
  LET isLead(i) == bytes[i] < 128 \/ bytes[i] >= 192
      leads == SelectSeq([i \in 1..Len(bytes) |-> i], isLead)
  IN [k \in 1..Len(leads) |-> utf8CharAt(bytes, leads[k])]

\* -------------------------------------------------------------- Unpacker
\* the hydration hooks tried: functional.identity, and a hook that wraps
\* every Structure into an application object
HydrateHooks == {"identity", "wrap"}
hydrate(hydrateStructure, structure) ==
  IF hydrateStructure = "wrap" THEN [t |-> "app", of |-> structure] ELSE structure

\* what a read did: the value, the cursor after it, the code of the error
\* thrown (NoError when it returned), and the Structures handed to the
\* hydration hook, in call order
Value(val, pos) == [val |-> val, pos |-> pos, err |-> NoError, log |-> <<>>]
Failed(pos, code) == [val |-> Null, pos |-> pos, err |-> code, log |-> <<>>]
\* a read past the end of the buffer: the buffer's own error, not the codec's
OutOfRange(pos) == Failed(pos, BUFFER_ERROR)

\* a size that fits the rest of the buffer, as a number
Fits(buf, pos, size) == size.hi = 0 /\ has(buf, pos, size.lo)
\* the rounds a loop "for (i = 0; i < size; i++)" gets to start when every
\* round reads at least one byte: a round started on an exhausted buffer throws
Rounds(buf, size) ==
  IF size.hi > 0 \/ size.lo > Len(buf) THEN Len(buf) + 1 ELSE size.lo

_unpackInteger(marker, buf, pos) ==
  IF marker >= 0 /\ marker < 128 THEN Value(int(marker), pos)
  ELSE IF marker >= 240 /\ marker < 256 THEN Value(int(marker - 256), pos)
  ELSE IF marker = INT_8
    THEN IF has(buf, pos, 1) THEN Value(int(readInt8(buf, pos)), pos + 1)
         ELSE OutOfRange(pos)
  ELSE IF marker = INT_16
    THEN IF has(buf, pos, 2) THEN Value(int(readInt16(buf, pos)), pos + 2)
         ELSE OutOfRange(pos)
  ELSE IF marker = INT_32
    THEN IF has(buf, pos, 4) THEN Value(int(readInt32(buf, pos)), pos + 4)
         ELSE OutOfRange(pos)
  ELSE IF marker = INT_64
    THEN IF has(buf, pos, 8)
           THEN LET high == readInt32(buf, pos)
                    low == readInt32(buf, pos + 4)
                IN Value(Integer(low, high), pos + 8)
         ELSE OutOfRange(pos)
  ELSE Value(Null, pos)

_unpackNumberOrInteger(marker, buf, pos) ==
  IF marker = FLOAT_64
    THEN IF has(buf, pos, 8) THEN Value(readFloat64(buf, pos), pos + 8)
         ELSE OutOfRange(pos)
  ELSE _unpackInteger(marker, buf, pos)

\* unpackInteger(buffer)
unpackInteger(buf, pos) ==
  IF ~has(buf, pos, 1) THEN OutOfRange(pos)
  ELSE LET result == _unpackInteger(buf[pos], buf, pos + 1)
       IN IF result.err = NoError /\ result.val = Null
            THEN Failed(result.pos, newError("undefined"))
          ELSE result

\* null: what an _unpack method returns for a marker that is not its own
NoMatch(pos) == Value(Null, pos)

\* utf8.decode(buffer, size) at the cursor
decodeAt(buf, pos, size) ==
  IF Fits(buf, pos, size)
    THEN Value(Str(utf8Decode(SubSeq(buf, pos, pos + size.lo - 1))), pos + size.lo)
  ELSE OutOfRange(pos)

_unpackString(marker, markerHigh, markerLow, buf, pos) ==
  IF markerHigh = TINY_STRING THEN decodeAt(buf, pos, Size(markerLow))
  ELSE IF marker = STRING_8
    THEN IF has(buf, pos, 1) THEN decodeAt(buf, pos + 1, readUInt8(buf, pos))
         ELSE OutOfRange(pos)
  ELSE IF marker = STRING_16
    THEN IF has(buf, pos, 2) THEN decodeAt(buf, pos + 2, readUInt16(buf, pos))
         ELSE OutOfRange(pos)
  ELSE IF marker = STRING_32
    THEN IF has(buf, pos, 4) THEN decodeAt(buf, pos + 4, readUInt32(buf, pos))
         ELSE OutOfRange(pos)
  ELSE NoMatch(pos)

\* the loop of _unpackByteArrayWithSize: value[i] = buffer.readInt8()
readInt8s(buf, pos, n) == [i \in 1..n |-> readInt8(buf, pos + i - 1)]

_unpackByteArrayWithSize(size, buf, pos) ==
  IF Fits(buf, pos, size)
    THEN Value(Bytes(readInt8s(buf, pos, size.lo)), pos + size.lo)
  ELSE OutOfRange(pos)

_unpackByteArray(marker, buf, pos) ==
  IF marker = BYTES_8
    THEN IF has(buf, pos, 1)
           THEN _unpackByteArrayWithSize(readUInt8(buf, pos), buf, pos + 1)
         ELSE OutOfRange(pos)
  ELSE IF marker = BYTES_16
    THEN IF has(buf, pos, 2)
           THEN _unpackByteArrayWithSize(readUInt16(buf, pos), buf, pos + 2)
         ELSE OutOfRange(pos)
  ELSE IF marker = BYTES_32
    THEN IF has(buf, pos, 4)
           THEN _unpackByteArrayWithSize(readUInt32(buf, pos), buf, pos + 4)
         ELSE OutOfRange(pos)
  ELSE NoMatch(pos)

\* value[key] = v on a plain object: a new key is appended, a known key
\* keeps its place and takes the new value
setKey(value, key, v) ==
  IF \E i \in 1..Len(value.keys) : value.keys[i] = key
    THEN LET i == CHOOSE j \in 1..Len(value.keys) : value.keys[j] = key
         IN Map(value.keys, [value.vals EXCEPT ![i] = v])
  ELSE Map(Append(value.keys, key), Append(value.vals, v))

\* the property name a decoded key is used as: a string's code points; any
\* other value's String() image is left abstract
keyOf(v) == IF v.t = "string" THEN v.s ELSE <<0>>

RECURSIVE unpack(_, _, _, _, _), listLoop(_, _, _, _, _, _, _)
RECURSIVE mapLoop(_, _, _, _, _, _, _), structLoop(_, _, _, _, _, _, _)

\* the loop of _unpackListWithSize, over the rounds lo..hi
listLoop(lo, hi, buf, hydrateStructure, dl, ub, acc) ==
  IF lo > hi \/ acc.err # NoError THEN acc
  ELSE IF lo = hi
    THEN LET r == unpack(buf, acc.pos, hydrateStructure, dl, ub)
         IN [val |-> Array(Append(acc.val.xs, r.val)),
             pos |-> r.pos, err |-> r.err, log |-> acc.log \o r.log]
  ELSE LET mid == (lo + hi) \div 2
           a == listLoop(lo, mid, buf, hydrateStructure, dl, ub, acc)
       IN listLoop(mid + 1, hi, buf, hydrateStructure, dl, ub, a)

_unpackListWithSize(size, buf, pos, hydrateStructure, dl, ub) ==
  listLoop(1, Rounds(buf, size), buf, hydrateStructure, dl, ub,
           Value(Array(<<>>), pos))

_unpackList(marker, markerHigh, markerLow, buf, pos, hydrateStructure, dl, ub) ==
  IF markerHigh = TINY_LIST
    THEN _unpackListWithSize(Size(markerLow), buf, pos, hydrateStructure, dl, ub)
  ELSE IF marker = LIST_8
    THEN IF has(buf, pos, 1)
           THEN _unpackListWithSize(readUInt8(buf, pos), buf, pos + 1,
                                    hydrateStructure, dl, ub)
         ELSE OutOfRange(pos)
  ELSE IF marker = LIST_16
    THEN IF has(buf, pos, 2)
           THEN _unpackListWithSize(readUInt16(buf, pos), buf, pos + 2,
                                    hydrateStructure, dl, ub)
         ELSE OutOfRange(pos)
  ELSE IF marker = LIST_32
    THEN IF has(buf, pos, 4)
           THEN _unpackListWithSize(readUInt32(buf, pos), buf, pos + 4,
                                    hydrateStructure, dl, ub)
         ELSE OutOfRange(pos)
  ELSE NoMatch(pos)

\* the loop of _unpackMapWithSize, over the rounds lo..hi
mapLoop(lo, hi, buf, hydrateStructure, dl, ub, acc) ==
  IF lo > hi \/ acc.err # NoError THEN acc
  ELSE IF lo = hi
    THEN LET key == unpack(buf, acc.pos, hydrateStructure, dl, ub)
         IN IF key.err # NoError
              THEN [val |-> acc.val, pos |-> key.pos, err |-> key.err,
                    log |-> acc.log \o key.log]
            ELSE LET r == unpack(buf, key.pos, hydrateStructure, dl, ub)
                 IN [val |-> setKey(acc.val, keyOf(key.val), r.val),
                     pos |-> r.pos, err |-> r.err,
                     log |-> acc.log \o key.log \o r.log]
  ELSE LET mid == (lo + hi) \div 2
           a == mapLoop(lo, mid, buf, hydrateStructure, dl, ub, acc)
       IN mapLoop(mid + 1, hi, buf, hydrateStructure, dl, ub, a)

_unpackMapWithSize(size, buf, pos, hydrateStructure, dl, ub) ==
  mapLoop(1, Rounds(buf, size), buf, hydrateStructure, dl, ub,
          Value(Map(<<>>, <<>>), pos))

_unpackMap(marker, markerHigh, markerLow, buf, pos, hydrateStructure, dl, ub) ==
  IF markerHigh = TINY_MAP
    THEN _unpackMapWithSize(Size(markerLow), buf, pos, hydrateStructure, dl, ub)
  ELSE IF marker = MAP_8
    THEN IF has(buf, pos, 1)
           THEN _unpackMapWithSize(readUInt8(buf, pos), buf, pos + 1,
                                   hydrateStructure, dl, ub)
         ELSE OutOfRange(pos)
  ELSE IF marker = MAP_16
    THEN IF has(buf, pos, 2)
           THEN _unpackMapWithSize(readUInt16(buf, pos), buf, pos + 2,
                                   hydrateStructure, dl, ub)
         ELSE OutOfRange(pos)
  ELSE IF marker = MAP_32
    THEN IF has(buf, pos, 4)
           THEN _unpackMapWithSize(readUInt32(buf, pos), buf, pos + 4,
                                   hydrateStructure, dl, ub)
         ELSE OutOfRange(pos)
  ELSE NoMatch(pos)

\* the loop of _unpackStructWithSize, over the rounds lo..hi
structLoop(lo, hi, buf, hydrateStructure, dl, ub, acc) ==
  IF lo > hi \/ acc.err # NoError THEN acc
  ELSE IF lo = hi
    THEN LET r == unpack(buf, acc.pos, hydrateStructure, dl, ub)
         IN [val |-> Structure(acc.val.signature, Append(acc.val.fields, r.val)),
             pos |-> r.pos, err |-> r.err, log |-> acc.log \o r.log]
  ELSE LET mid == (lo + hi) \div 2
           a == structLoop(lo, mid, buf, hydrateStructure, dl, ub, acc)
       IN structLoop(mid + 1, hi, buf, hydrateStructure, dl, ub, a)

_unpackStructWithSize(structSize, buf, pos, hydrateStructure, dl, ub) ==
  IF ~has(buf, pos, 1) THEN OutOfRange(pos)
  ELSE LET signature == buf[pos]
           r == structLoop(1, Rounds(buf, structSize), buf, hydrateStructure, dl, ub,
                           Value(Structure(signature, <<>>), pos + 1))
       IN IF r.err # NoError THEN r
          ELSE [val |-> hydrate(hydrateStructure, r.val), pos |-> r.pos,
                err |-> NoError, log |-> Append(r.log, r.val)]

_unpackStruct(marker, markerHigh, markerLow, buf, pos, hydrateStructure, dl, ub) ==
  IF markerHigh = TINY_STRUCT
    THEN _unpackStructWithSize(Size(markerLow), buf, pos, hydrateStructure, dl, ub)
  ELSE IF marker = STRUCT_8
    THEN IF has(buf, pos, 1)
           THEN _unpackStructWithSize(readUInt8(buf, pos), buf, pos + 1,
                                      hydrateStructure, dl, ub)
         ELSE OutOfRange(pos)
  ELSE IF marker = STRUCT_16
    THEN IF has(buf, pos, 2)
           THEN _unpackStructWithSize(readUInt16(buf, pos), buf, pos + 2,
                                      hydrateStructure, dl, ub)
         ELSE OutOfRange(pos)
  ELSE NoMatch(pos)

_unpackBoolean(marker) ==
  IF marker = TRUE_ THEN Bool(TRUE)
  ELSE IF marker = FALSE_ THEN Bool(FALSE)
  ELSE Null

\* integerPolicy with the two flags tested in the other order
integerPolicy_swapped(numberOrInteger, dl, ub) ==
  IF isInt(numberOrInteger)
    THEN IF dl THEN toNumberOrInfinity(numberOrInteger)
         ELSE IF ub THEN toBigInt(numberOrInteger)
         ELSE numberOrInteger
  ELSE numberOrInteger

\* what unpack returns for a decoded numberOrInteger
integerPolicy(numberOrInteger, dl, ub) ==
  IF isInt(numberOrInteger)
    THEN IF ub THEN toBigInt(numberOrInteger)
         ELSE IF dl THEN toNumberOrInfinity(numberOrInteger)
         ELSE numberOrInteger
  ELSE numberOrInteger

\* a result that is a match (or an error thrown while reading one)
Matched(r) == r.err # NoError \/ r.val # Null

\* Unpacker.unpack(buffer, hydrateStructure) with the cursor at pos; dl and
\* ub are _disableLosslessIntegers and _useBigInt
unpack(buf, pos, hydrateStructure, dl, ub) ==
  IF ~has(buf, pos, 1) THEN OutOfRange(pos)
  ELSE
  LET marker == buf[pos]
      markerHigh == marker - (marker % 16)
      markerLow == marker % 16
      p == pos + 1
      boolean == _unpackBoolean(marker)
      numberOrInteger == _unpackNumberOrInteger(marker, buf, p)
      string == _unpackString(marker, markerHigh, markerLow, buf, p)
      list == _unpackList(marker, markerHigh, markerLow, buf, p,
                          hydrateStructure, dl, ub)
      byteArray == _unpackByteArray(marker, buf, p)
      map == _unpackMap(marker, markerHigh, markerLow, buf, p,
                        hydrateStructure, dl, ub)
      struct == _unpackStruct(marker, markerHigh, markerLow, buf, p,
                              hydrateStructure, dl, ub)
  IN IF marker = NULL THEN Value(Null, p)
     ELSE IF boolean # Null THEN Value(boolean, p)
     ELSE IF Matched(numberOrInteger)
       THEN IF numberOrInteger.err = NoError
              THEN Value(integerPolicy(numberOrInteger.val, dl, ub),
                         numberOrInteger.pos)
            ELSE numberOrInteger
     ELSE IF Matched(string) THEN string
     ELSE IF Matched(list) THEN list
     ELSE IF Matched(byteArray) THEN byteArray
     ELSE IF Matched(map) THEN map
     ELSE IF Matched(struct) THEN struct
     ELSE Failed(p, newError("undefined"))

\* ------------------------------------------------------------ the values
\* sizes in the *_8 and the *_16 class
Len8 == 16
Len16 == 256

Highs == {MinInt32, -2097153, -2097152, -2, -1, 0, 1, 2097151, 2097152, MaxInt32}
Lows == {MinInt32, MinInt32 + 1, -32769, -32768, -129, -128, -17, -16, -1, 0, 1,
         127, 128, 32767, 32768, MaxInt32}
Integers == {Integer(low, high) : low \in Lows, high \in Highs}

One == Integer(1, 0)
StrA == Str(<<97>>)
K(i) == <<107, 48 + i>>
Nulls(n) == [i \in 1..n |-> Null]
Ones(n) == [i \in 1..n |-> One]

Numbers == {Num(0), Num(1), Num(-1), Num(2), Num(300), Num(-70000),
            Number(0, 0, 1), Number(0, 0, -1)}
Strings == {Str(<<>>), StrA, Str(K(1)), Str(<<233>>), Str(<<8364, 97>>), Poison,
            Str([i \in 1..Len8 |-> 96 + i]), Str([i \in 1..Len16 |-> 97])}
ByteArrays == {Bytes(<<>>), Bytes(<<1, -1, 127, -128>>), Bytes([i \in 1..Len16 |-> -1])}
Leaves == {Null, Bool(TRUE), Bool(FALSE)} \cup Numbers \cup Strings \cup ByteArrays
            \cup Integers

Arrays ==
  {Array(<<>>), Array(<<Null>>), Array(<<Undefined, One>>), Array(<<Poison>>),
   Array(<<One, Poison, StrA>>), Array(<<Integer(0, MinInt32), StrA>>),
   Array(<<Array(<<Poison>>)>>), Array(<<Bytes(<<7>>), One>>),
   Array(<<Array(<<Num(1), Undefined>>), Map(<<K(1)>>, <<Undefined>>)>>),
   Array(Ones(Len8)), Array(Nulls(Len16))}

Maps ==
  {Map(<<>>, <<>>),
   Map(<<K(1), K(2), K(3)>>, <<Num(1), Undefined, Null>>),
   Map(<<K(1), K(2), K(3)>>, <<One, Undefined, Null>>),
   Map(<<K(1)>>, <<Undefined>>),
   Map(<<K(1), K(2)>>, <<One, Poison>>),
   Map(<<K(1), K(2)>>, <<Array(<<Undefined>>), Map(<<K(1), K(2)>>, <<Undefined, StrA>>)>>),
   Map(<<K(1)>>, <<Structure(78, <<StrA>>)>>),
   Map([i \in 1..Len8 |-> K(i)], [i \in 1..Len8 |-> IF i = 2 THEN Undefined ELSE One]),
   Map([i \in 1..Len8 |-> K(i)], Ones(Len8))}

BadIterable == Iterable(<<>>, FALSE)

Structures ==
  {Structure(78, <<StrA, Num(1)>>), Structure(78, <<StrA, One>>),
   Structure(1, <<>>), Structure(2, <<Poison>>), Structure(255, <<One, Poison>>),
   Structure(3, <<Structure(4, <<Null>>), Structure(5, <<>>)>>),
   Structure(6, <<Array(<<One, Poison>>)>>),
   Structure(7, <<Map(<<K(1)>>, <<Structure(8, <<Undefined>>)>>)>>),
   Structure(9, <<One, BadIterable>>),
   Structure(10, Ones(Len8)), Structure(11, Nulls(Len16)),
   Structure(12, Ones(Len16)),
   Structure(13, <<Integer(128, 0)>> \o Nulls(Len16 - 1))}

Nested ==
  {Array(<<Structure(11, Nulls(Len16)), One>>),
   Map(<<K(1)>>, <<Structure(12, Ones(Len16))>>),
   Array(<<Structure(2, <<Poison>>)>>),
   Array(<<One, BadIterable>>), Array(<<Function>>)}

Others ==
  {Undefined, Function, BigInt(5, 0), BigInt(0, MinInt32),
   Iterable(<<One, StrA>>, TRUE), Iterable(<<Poison>>, TRUE), BadIterable}

Values == Leaves \cup Arrays \cup Maps \cup Structures \cup Nested \cup Others

\* buffers that no pack call wrote: every first byte, alone and before a
\* run of zero bytes
RawBuffers == {<<m>> : m \in 0..255} \cup {<<m, 0, 0, 0, 0, 0, 0, 0, 0>> : m \in 0..255}

\* sizes handed to the header methods
HeaderSizes ==
  {Size(0), Size(15), Size(16), Size(255), Size(256), Size(4660), Size(65280),
   Size(65535), [hi |-> 1, lo |-> 0], [hi |-> 4660, lo |-> 22136],
   [hi |-> 65535, lo |-> 65535], [hi |-> 65536, lo |-> 0]}

\* ---------------------------------------------------------------- state
VARIABLES
  byteArraysSupported,      \* Packer._byteArraysSupported
  channel,                  \* Packer._ch: the channel the Packer was built on
  ch,                       \* the bytes written to Packer._ch
  disableLosslessIntegers,  \* Unpacker._disableLosslessIntegers
  useBigInt,                \* Unpacker._useBigInt
  pc,                       \* where the current message is
  op,                       \* the method called last
  x,                        \* the value handed to packable
  dehydrateStruct,          \* the dehydration hook handed to packable
  fn,                       \* the function packable returned
  err,                      \* the code of the error the last call threw
  calls,                    \* dehydration hook invocations of this encode
  buffer,                   \* the buffer handed to the Unpacker
  result,                   \* what unpack / unpackInteger returned
  pos,                      \* the buffer's cursor after the read
  hydrateStructure,         \* the hydration hook handed to unpack
  hydrated,                 \* the Structures the hydration hook was given
  headerSize                \* the size handed to the header method called last

vars == <<byteArraysSupported, channel, ch, disableLosslessIntegers, useBigInt, pc, op, x,
          dehydrateStruct, fn, err, calls, buffer, result, pos, hydrateStructure,
          hydrated, headerSize>>

packerVars == <<byteArraysSupported, channel, ch>>
unpackerVars == <<disableLosslessIntegers, useBigInt>>
encodeVars == <<x, dehydrateStruct, fn, calls>>
decodeVars == <<buffer, result, pos, hydrateStructure, hydrated>>
headerVars == <<headerSize>>

\* the channels a Packer is built on
Channels == {"channel1", "channel2"}

\* new Packer(channel), new Unpacker(disableLosslessIntegers, useBigInt)
Init ==
  /\ byteArraysSupported = TRUE
  /\ channel \in Channels
  /\ ch = <<>>
  /\ disableLosslessIntegers \in BOOLEAN
  /\ useBigInt \in BOOLEAN
  /\ pc = "idle"
  /\ op = "new"
  /\ x = Null
  /\ dehydrateStruct = "identity"
  /\ fn = NoClosure
  /\ err = NoError
  /\ calls = 0
  /\ buffer = <<>>
  /\ result = Null
  /\ pos = 1
  /\ hydrateStructure = "identity"
  /\ hydrated = <<>>
  /\ headerSize = Size(0)

\* disableByteArrays setting the flag to the other value
DisableByteArrays_toggle ==
  /\ byteArraysSupported' = ~byteArraysSupported
  /\ UNCHANGED <<channel, ch, unpackerVars, pc, op, encodeVars, err, decodeVars, headerVars>>

\* packer.disableByteArrays(), between any two calls
DisableByteArrays ==
  /\ byteArraysSupported' = FALSE
  /\ UNCHANGED <<channel, ch, unpackerVars, pc, op, encodeVars, err, decodeVars, headerVars>>

\* const f = packer.packable(v, h)
Packable(v, h) ==
  /\ pc = "idle"
  /\ LET c == packable(v, h)
     IN /\ fn' = c.fn
        /\ err' = c.err
        /\ calls' = c.calls
        /\ pc' = IF c.err = NoError THEN "created" ELSE "failed"
  /\ x' = v
  /\ dehydrateStruct' = h
  /\ op' = "packable"
  /\ UNCHANGED <<packerVars, unpackerVars, decodeVars, headerVars>>

\* f()
Call ==
  /\ pc = "created"
  /\ LET r == call(fn, dehydrateStruct, byteArraysSupported)
     IN /\ ch' = ch \o r.out
        /\ err' = r.err
        /\ calls' = calls + r.calls
        /\ pc' = IF r.err = NoError THEN "packed" ELSE "failed"
  /\ op' = "call"
  /\ UNCHANGED <<byteArraysSupported, channel, unpackerVars, x, dehydrateStruct, fn,
               decodeVars,
               headerVars>>

\* a direct call of one of the header methods, or of packString's size
\* dispatch with a byte run of the given size left abstract
PackHeader(m, size, signature) ==
  /\ pc = "idle"
  /\ LET r == CASE m = "packListHeader" -> packListHeader(size)
                [] m = "packMapHeader" -> packMapHeader(size)
                [] m = "packBytesHeader" -> packBytesHeader(size)
                [] m = "packStructHeader" -> packStructHeader(size, signature)
                [] m = "packString" -> packStringSized(size, <<>>)
     IN /\ ch' = ch \o r.out
        /\ err' = r.err
        /\ pc' = IF r.err = NoError THEN "header" ELSE "failed"
  /\ op' = m
  /\ headerSize' = size
  /\ UNCHANGED <<byteArraysSupported, channel, unpackerVars, encodeVars, decodeVars>>

\* unpacker.unpack(buffer, h) on the bytes the packer wrote
Unpack(h) ==
  /\ pc = "packed"
  /\ LET r == unpack(ch, 1, h, disableLosslessIntegers, useBigInt)
     IN /\ result' = r.val
        /\ pos' = r.pos
        /\ err' = r.err
        /\ hydrated' = r.log
  /\ buffer' = ch
  /\ hydrateStructure' = h
  /\ pc' = "unpacked"
  /\ op' = "unpack"
  /\ UNCHANGED <<packerVars, unpackerVars, encodeVars, headerVars>>

\* unpacker.unpack(buffer) on a buffer from elsewhere
UnpackRaw(raw) ==
  /\ pc = "idle"
  /\ LET r == unpack(raw, 1, "identity", disableLosslessIntegers, useBigInt)
     IN /\ result' = r.val
        /\ pos' = r.pos
        /\ err' = r.err
        /\ hydrated' = r.log
  /\ buffer' = raw
  /\ hydrateStructure' = "identity"
  /\ pc' = "unpacked"
  /\ op' = "unpackRaw"
  /\ UNCHANGED <<packerVars, unpackerVars, encodeVars, headerVars>>

\* unpacker.unpackInteger(buffer)
UnpackInteger(raw) ==
  /\ pc = "idle"
  /\ LET r == unpackInteger(raw, 1)
     IN /\ result' = r.val
        /\ pos' = r.pos
        /\ err' = r.err
  /\ buffer' = raw
  /\ hydrated' = <<>>
  /\ hydrateStructure' = "identity"
  /\ pc' = "unpacked"
  /\ op' = "unpackInteger"
  /\ UNCHANGED <<packerVars, unpackerVars, encodeVars, headerVars>>

\* the next message: a fresh channel buffer, the same Packer and Unpacker
NextMessage ==
  /\ pc \in {"packed", "failed", "unpacked", "header"}
  /\ pc' = "idle"
  /\ op' = "new"
  /\ ch' = <<>>
  /\ x' = Null
  /\ dehydrateStruct' = "identity"
  /\ fn' = NoClosure
  /\ err' = NoError
  /\ calls' = 0
  /\ buffer' = <<>>
  /\ result' = Null
  /\ pos' = 1
  /\ hydrateStructure' = "identity"
  /\ hydrated' = <<>>
  /\ headerSize' = Size(0)
  /\ UNCHANGED <<byteArraysSupported, channel, unpackerVars>>

HeaderMethods ==
  {"packListHeader", "packMapHeader", "packBytesHeader", "packStructHeader",
   "packString"}

Next ==
  \/ DisableByteArrays
  \/ \E v \in Values, h \in DehydrateHooks : Packable(v, h)
  \/ Call
  \/ \E m \in HeaderMethods, size \in HeaderSizes, signature \in {78} :
       PackHeader(m, size, signature)
  \/ \E h \in HydrateHooks : Unpack(h)
  \/ \E raw \in RawBuffers : UnpackRaw(raw)
  \/ \E raw \in RawBuffers : UnpackInteger(raw)
  \/ NextMessage

Spec == Init /\ [][Next]_vars

\* =================================================================
\* Properties
\* =================================================================
identityHooks == dehydrateStruct = "identity" /\ hydrateStructure = "identity"
\* a value was packed and the bytes written were unpacked
RoundTripDone == pc = "unpacked" /\ op = "unpack"
\* a function packable returned was called and returned
Packed == op = "call" /\ pc = "packed"

\* the integer the two words of x hold lies in the 32-bit range
Fits32(n) == (n.high = 0 /\ n.low >= 0) \/ (n.high = -1 /\ n.low < 0)

\* |x| <= 2^53 - 1, on the words of x
InSafeRange(n) ==
  /\ n.high >= -2097152
  /\ n.high <= 2097151
  /\ ~(n.high = -2097152 /\ n.low = 0)

\* the integer policy of section 4.3 on one Integer
PolicyOf(v) ==
  IF useBigInt THEN [t |-> "bigint", high |-> v.high, low |-> v.low]
  ELSE IF disableLosslessIntegers
    THEN IF InSafeRange(v) THEN [t |-> "number", high |-> v.high, low |-> v.low, inf |-> 0]
         ELSE [t |-> "number", high |-> 0, low |-> 0, inf |-> IF v.high < 0 THEN -1 ELSE 1]
  ELSE v

\* v with every Integer in it replaced as the policy says
RECURSIVE Policy(_)
Policy(v) ==
  CASE v.t = "integer" -> PolicyOf(v)
    [] v.t = "array" -> Array([i \in 1..Len(v.xs) |-> Policy(v.xs[i])])
    [] v.t = "map" -> Map(v.keys, [i \in 1..Len(v.vals) |-> Policy(v.vals[i])])
    [] v.t = "struct" ->
         Structure(v.signature, [i \in 1..Len(v.fields) |-> Policy(v.fields[i])])
    [] OTHER -> v

\* v is of the recognized domain: Null, Boolean, Float, Integer, String,
\* Bytes, List, Map, Structure, nested
RECURSIVE Recognized(_)
Recognized(v) ==
  CASE v.t \in {"null", "bool", "number", "integer", "string", "bytes"} -> TRUE
    [] v.t = "array" -> \A i \in 1..Len(v.xs) : Recognized(v.xs[i])
    [] v.t = "map" -> \A i \in 1..Len(v.vals) : Recognized(v.vals[i])
    [] v.t = "struct" -> \A i \in 1..Len(v.fields) : Recognized(v.fields[i])
    [] OTHER -> FALSE

\* no Structure in v has 256 fields or more
RECURSIVE NarrowStructures(_)
NarrowStructures(v) ==
  CASE v.t = "array" -> \A i \in 1..Len(v.xs) : NarrowStructures(v.xs[i])
    [] v.t = "iterable" -> \A i \in 1..Len(v.xs) : NarrowStructures(v.xs[i])
    [] v.t = "map" -> \A i \in 1..Len(v.vals) : NarrowStructures(v.vals[i])
    [] v.t = "struct" ->
         Len(v.fields) < 256 /\ \A i \in 1..Len(v.fields) : NarrowStructures(v.fields[i])
    [] OTHER -> TRUE

\* C1: round trip. Unpacking the bytes that packable(v)() wrote gives v
\* back, modulo the integer policy, for every v of the recognized domain.
\* (Violated: a Structure of 256 fields or more is written without its
\* signature byte, so that unpack takes the first field's byte for it.)
RoundTrip ==
  (RoundTripDone /\ identityHooks /\ Recognized(x))
    => (err = NoError /\ result = Policy(x))

\* the round trip does hold for the values all of whose Structures have
\* fewer than 256 fields
RoundTripNarrow ==
  (RoundTripDone /\ identityHooks /\ Recognized(x) /\ NarrowStructures(x))
    => (err = NoError /\ result = Policy(x) /\ pos = Len(buffer) + 1)

\* C2: structure identity. With the identity hooks, unpacking a packed
\* Structure of any encodable field count gives a Structure of the same
\* signature whose fields are the fields of the original, in order.
\* (Violated at 256 fields: packStructHeader's STRUCT_16 branch writes no
\* signature.)
StructureIdentity ==
  (RoundTripDone /\ identityHooks /\ x.t = "struct" /\ Recognized(x))
    => /\ err = NoError
       /\ result.t = "struct"
       /\ result.signature = x.signature
       /\ Len(result.fields) = Len(x.fields)
       /\ \A i \in 1..Len(x.fields) : result.fields[i] = Policy(x.fields[i])

\* the n low bytes of the two's complement of w, most significant first
RECURSIVE Pow256(_)
Pow256(n) == IF n = 0 THEN 1 ELSE 256 * Pow256(n - 1)
BigEndian(w, n) == [i \in 1..n |-> (w \div Pow256(n - i)) % 256]

\* the narrowest PackStream form of the Integer n
NarrowestForm(n) ==
  IF Fits32(n)
    THEN LET v == n.low
         IN IF -16 <= v /\ v < 128 THEN BigEndian(v, 1)
            ELSE IF -128 <= v /\ v < -16 THEN <<200>> \o BigEndian(v, 1)
            ELSE IF -32768 <= v /\ v < 32768 THEN <<201>> \o BigEndian(v, 2)
            ELSE <<202>> \o BigEndian(v, 4)
  ELSE <<203>> \o BigEndian(n.high, 4) \o BigEndian(n.low, 4)

\* C3: narrowest integer form. packInteger writes the smallest encoding
\* whose range holds x: one byte for -16 <= x < 128, C8 + 1 byte down to
\* -128, C9 + 2 bytes in the 16-bit range, CA + 4 bytes in the 32-bit range,
\* CB + high word + low word otherwise; the literal boundary cases of the
\* specification included.
NarrowestInteger ==
  /\ (Packed /\ x.t = "integer") => ch = NarrowestForm(x)
  /\ (Packed /\ x = Integer(127, 0)) => ch = <<127>>
  /\ (Packed /\ x = Integer(128, 0)) => ch = <<201, 0, 128>>
  /\ (Packed /\ x = Integer(-16, -1)) => ch = <<240>>
  /\ (Packed /\ x = Integer(-17, -1)) => ch = <<200, 239>>
  /\ (Packed /\ x = Integer(0, MinInt32)) => ch = <<203, 128, 0, 0, 0, 0, 0, 0, 0>>

\* -2^63 was packed as INT_64
NarrowestIntegerWitness ==
  Packed /\ x = Integer(0, MinInt32) /\ Len(ch) = 9

\* C4: integer policy on decode. An encoded integer of value n comes back
\* as the Integer n with both flags off, as the bigint n whenever
\* useBigInt is set, and otherwise (disableLosslessIntegers alone) as the
\* number n, or as +/-Infinity outside the safe range; a FLOAT_64 comes
\* back as a number under every flag combination.
IntegerPolicy ==
  /\ (RoundTripDone /\ x.t \in {"integer", "bigint"})
       => /\ err = NoError
          /\ (~useBigInt /\ ~disableLosslessIntegers)
               => result = [t |-> "integer", high |-> x.high, low |-> x.low]
          /\ useBigInt => result = [t |-> "bigint", high |-> x.high, low |-> x.low]
          /\ (disableLosslessIntegers /\ ~useBigInt /\ InSafeRange(x))
               => result = [t |-> "number", high |-> x.high, low |-> x.low, inf |-> 0]
          /\ (disableLosslessIntegers /\ ~useBigInt /\ ~InSafeRange(x))
               => /\ result.t = "number"
                  /\ result.inf = IF x.high < 0 THEN -1 ELSE 1
  /\ (RoundTripDone /\ x.t = "number") => (err = NoError /\ result = x)
  /\ (op = "unpackRaw" /\ buffer[1] = FLOAT_64 /\ err = NoError) => result.t = "number"

\* 2^53 came back as +Infinity under disableLosslessIntegers alone
IntegerPolicyWitness ==
  /\ RoundTripDone /\ x = Integer(0, 2097152)
  /\ disableLosslessIntegers /\ ~useBigInt /\ result.t = "number" /\ result.inf = 1

\* the sequences ss[lo..hi] joined, and the numbers ns[lo..hi] added
RECURSIVE Join(_, _, _), Sum(_, _, _)
Join(ss, lo, hi) ==
  IF lo > hi THEN <<>>
  ELSE IF lo = hi THEN ss[lo]
  ELSE Join(ss, lo, (lo + hi) \div 2) \o Join(ss, ((lo + hi) \div 2) + 1, hi)
Sum(ns, lo, hi) ==
  IF lo > hi THEN 0
  ELSE IF lo = hi THEN ns[lo]
  ELSE Sum(ns, lo, (lo + hi) \div 2) + Sum(ns, ((lo + hi) \div 2) + 1, hi)

\* the bytes packing v writes when nothing fails
Encoded(v) == packNow(v, "identity", TRUE).out

\* v as it is expected back: undefined map entries removed, undefined list
\* elements replaced by Null, at every level
RECURSIVE Defined(_)
Defined(v) ==
  CASE v.t = "array" ->
         Array([i \in 1..Len(v.xs) |->
                  IF v.xs[i] = Undefined THEN Null ELSE Defined(v.xs[i])])
    [] v.t = "map" ->
         LET kept == SelectSeq([i \in 1..Len(v.keys) |-> i],
                               LAMBDA i : v.vals[i] # Undefined)
         IN Map([k \in 1..Len(kept) |-> v.keys[kept[k]]],
                [k \in 1..Len(kept) |-> Defined(v.vals[kept[k]])])
    [] v.t = "struct" ->
         Structure(v.signature, [i \in 1..Len(v.fields) |-> Defined(v.fields[i])])
    [] OTHER -> v

\* the header of a list (family 9, D4) or a map (family A, D8) of n < 256
SmallHeader(tiny, m8, n) == IF n < 16 THEN <<tiny + n>> ELSE <<m8, n>>

\* the entries of the map m whose value is not undefined, in key order
KeptEntries(m) ==
  SelectSeq([i \in 1..Len(m.keys) |-> i], LAMBDA i : m.vals[i] # Undefined)

MapOnWire ==
  (Packed /\ x.t = "map" /\ Len(x.keys) < 256)
    => LET kept == KeptEntries(x)
       IN ch = SmallHeader(160, 216, Len(kept))
                 \o Join([k \in 1..Len(kept) |->
                            Encoded(Str(x.keys[kept[k]])) \o Encoded(x.vals[kept[k]])],
                         1, Len(kept))

ListOnWire ==
  (Packed /\ x.t = "array" /\ Len(x.xs) < 256)
    => ch = SmallHeader(144, 212, Len(x.xs))
              \o Join([i \in 1..Len(x.xs) |->
                         IF x.xs[i] = Undefined THEN <<192>> ELSE Encoded(x.xs[i])],
                      1, Len(x.xs))

\* C5: undefined semantics. A map's header carries the number of entries
\* whose value is not undefined, those entries follow in key order (null
\* values kept), and unpacking gives the map without its undefined entries;
\* a list's header carries its full length, an undefined element is written
\* as Null, and unpacking gives a list of the same length.
\* (Violated only through C2: a map or list that holds a Structure of 256
\* fields or more does not come back.)
UndefinedSemantics ==
  /\ MapOnWire
  /\ ListOnWire
  /\ (RoundTripDone /\ identityHooks /\ x.t = "map")
       => (err = NoError /\ result = Policy(Defined(x)))
  /\ (RoundTripDone /\ identityHooks /\ x.t = "array")
       => (err = NoError /\ result.t = "array" /\ Len(result.xs) = Len(x.xs))

\* the same, for maps and lists that hold no Structure of 256 fields or more
UndefinedSemanticsNarrow ==
  /\ MapOnWire
  /\ ListOnWire
  /\ (RoundTripDone /\ identityHooks /\ x.t = "map" /\ NarrowStructures(x))
       => (err = NoError /\ result = Policy(Defined(x)))
  /\ (RoundTripDone /\ identityHooks /\ x.t = "array" /\ NarrowStructures(x))
       => (err = NoError /\ result = Policy(Defined(x)))

HookFailureBeforeHeaders ==
  /\ op = "packable" => err # HOOK_ERROR
  /\ (op = "call" /\ err = HOOK_ERROR) => ch = <<>>

\* C7, amended: deferred hook failure. Creating the packable never raises
\* the hook's failure; calling it raises the failure where the failing value
\* would be written: every byte that comes before that value (the headers of
\* the enclosing composites, the earlier siblings) has been written, and no
\* byte of the value itself.
DeferredHookFailure ==
  /\ op = "packable" => err # HOOK_ERROR
  /\ (op = "call" /\ err = HOOK_ERROR)
       => LET full == Encoded(x)
          IN /\ Len(ch) + 2 <= Len(full)
             /\ SubSeq(full, 1, Len(ch)) = ch
             /\ SubSeq(full, Len(ch) + 1, Len(ch) + 2) = <<129, 33>>
             /\ x # Poison => ch # <<>>

\* the hook failed on the second element of a list of three: the list
\* header and the first element are on the channel
DeferredHookFailureWitness ==
  /\ op = "call" /\ err = HOOK_ERROR
  /\ x = Array(<<One, Poison, StrA>>) /\ ch = <<147, 1>>

\* the first bytes no branch of unpack accepts
UnknownMarkers == (196..199) \cup {207, 211, 215, 219} \cup (222..239)
\* the first bytes _unpackInteger accepts
IntegerMarkers == (0..127) \cup (240..255) \cup {200, 201, 202, 203}

C9Map(one) == Map(<<K(1), K(2), K(3)>>, <<one, Undefined, Null>>)
C9Structure(one) == Structure(78, <<StrA, one>>)

\* C9 as claimed: the map {k1: 1, k2: undefined, k3: null} is written as
\* A2 82 6B 31 01 82 6B 33 C0 and Structure{0x4E, ["a", 1]} as B2 4E 81 61 01,
\* the 1 being the host value 1.
LiteralComposites ==
  /\ (Packed /\ x = C9Map(Num(1))) => ch = <<162, 130, 107, 49, 1, 130, 107, 51, 192>>
  /\ (Packed /\ x = C9Structure(Num(1))) => ch = <<178, 78, 129, 97, 1>>

\* C9, amended: literal composite encodings. The host number 1 is written
\* as a FLOAT_64 (C1 3F F0 00 00 00 00 00 00), as a map value and as a
\* structure field; the bytes claimed are those written when the 1 is an
\* Integer.
LiteralCompositesTyped ==
  /\ (Packed /\ x = C9Map(Num(1)))
       => ch = <<162, 130, 107, 49, 193, 63, 240, 0, 0, 0, 0, 0, 0, 130, 107, 51, 192>>
  /\ (Packed /\ x = C9Structure(Num(1)))
       => ch = <<178, 78, 129, 97, 193, 63, 240, 0, 0, 0, 0, 0, 0>>
  /\ (Packed /\ x = C9Map(One)) => ch = <<162, 130, 107, 49, 1, 130, 107, 51, 192>>
  /\ (Packed /\ x = C9Structure(One)) => ch = <<178, 78, 129, 97, 1>>

\* the map with the host number 1 was packed into 17 bytes
LiteralCompositesWitness == Packed /\ x = C9Map(Num(1)) /\ Len(ch) = 17

\* the values of the tree v that packable is handed: v itself, every list
\* element (undefined as null), every map value that is not undefined,
\* every structure field; an iterable and the array made from it
RECURSIVE Dehydrations(_)
Dehydrations(v) ==
  CASE v.t = "array" ->
         1 + Sum([i \in 1..Len(v.xs) |->
                    IF v.xs[i] = Undefined THEN 1 ELSE Dehydrations(v.xs[i])],
                 1, Len(v.xs))
    [] v.t = "iterable" -> 1 + Dehydrations(Array(v.xs))
    [] v.t = "map" ->
         1 + Sum([i \in 1..Len(v.vals) |->
                    IF v.vals[i] = Undefined THEN 0 ELSE Dehydrations(v.vals[i])],
                 1, Len(v.vals))
    [] v.t = "struct" ->
         1 + Sum([i \in 1..Len(v.fields) |-> Dehydrations(v.fields[i])],
                 1, Len(v.fields))
    [] OTHER -> 1

\* the Structures of the tree v that reach the wire
RECURSIVE StructureCount(_)
StructureCount(v) ==
  CASE v.t \in {"array", "iterable"} ->
         Sum([i \in 1..Len(v.xs) |->
                IF v.xs[i] = Undefined THEN 0 ELSE StructureCount(v.xs[i])],
             1, Len(v.xs))
    [] v.t = "map" ->
         Sum([i \in 1..Len(v.vals) |->
                IF v.vals[i] = Undefined THEN 0 ELSE StructureCount(v.vals[i])],
             1, Len(v.vals))
    [] v.t = "struct" ->
         1 + Sum([i \in 1..Len(v.fields) |-> StructureCount(v.fields[i])],
                 1, Len(v.fields))
    [] OTHER -> 0

\* the Structures of a decoded value, the fields' before the Structure's
\* own, as the hook was handed them (a hydrated one is taken out of its
\* wrapper)
RECURSIVE Decoded(_)
Decoded(v) ==
  CASE v.t = "array" -> Join([i \in 1..Len(v.xs) |-> Decoded(v.xs[i])], 1, Len(v.xs))
    [] v.t = "map" -> Join([i \in 1..Len(v.vals) |-> Decoded(v.vals[i])], 1, Len(v.vals))
    [] v.t = "struct" ->
         Append(Join([i \in 1..Len(v.fields) |-> Decoded(v.fields[i])],
                     1, Len(v.fields)), v)
    [] v.t = "app" -> Decoded(v.of)
    [] OTHER -> <<>>

\* C10 as claimed: during one encode the dehydration hook runs once, on the
\* top-level value only; during one decode the hydration hook runs once
\* per Structure of the encoded value.
HookOncePerEncode ==
  /\ Packed => calls = 1
  /\ (RoundTripDone /\ err = NoError /\ NarrowStructures(x))
       => Len(hydrated) = StructureCount(x)

\* C10, amended: hook invocation count. During one encode the dehydration
\* hook runs once for every value of the tree that is written (the top-level
\* value, every list element, every map value that is not undefined, every
\* structure field; never a map key), and once more for the array made from
\* an iterable. During one decode the hydration hook runs once for every
\* Structure read, handed the Structure with all its fields, the fields'
\* Structures first; when no Structure of the value has 256 fields or more,
\* these are the Structures of the value.
HookInvocations ==
  /\ Packed => calls = Dehydrations(x)
  /\ (RoundTripDone /\ err = NoError)
       => /\ hydrated = Decoded(result)
          /\ NarrowStructures(x) => Len(hydrated) = StructureCount(x)

\* a Structure of two Structures: four dehydrations, three hydrations, the
\* outer Structure last and with both its fields
HookInvocationsWitness ==
  /\ RoundTripDone /\ err = NoError
  /\ x = Structure(3, <<Structure(4, <<Null>>), Structure(5, <<>>)>>)
  /\ calls = 4
  /\ Len(hydrated) = 3
  /\ hydrated[3].signature = 3 /\ Len(hydrated[3].fields) = 2
  /\ hydrateStructure = "wrap" /\ result.t = "app"

\* the branches of unpack's cascade that take the first byte of buf: those
\* that return a value or throw while reading one
AcceptingBranches(buf, hs, dl, ub) ==
  LET marker == buf[1]
      markerHigh == marker - (marker % 16)
      markerLow == marker % 16
  IN {b \in {"null", "boolean", "numberOrInteger", "string", "list",
             "byteArray", "map", "struct"} :
        CASE b = "null" -> marker = NULL
          [] b = "boolean" -> _unpackBoolean(marker) # Null
          [] b = "numberOrInteger" -> Matched(_unpackNumberOrInteger(marker, buf, 2))
          [] b = "string" -> Matched(_unpackString(marker, markerHigh, markerLow, buf, 2))
          [] b = "list" ->
               Matched(_unpackList(marker, markerHigh, markerLow, buf, 2, hs, dl, ub))
          [] b = "byteArray" -> Matched(_unpackByteArray(marker, buf, 2))
          [] b = "map" ->
               Matched(_unpackMap(marker, markerHigh, markerLow, buf, 2, hs, dl, ub))
          [] b = "struct" ->
               Matched(_unpackStruct(marker, markerHigh, markerLow, buf, 2, hs, dl, ub))}

\* a received first byte: no marker of the table, refused with a decode
\* error; a marker of the table, taken by one branch and one only
MarkerTable ==
  op = "unpackRaw"
    => LET taking == AcceptingBranches(buffer, hydrateStructure,
                                       disableLosslessIntegers, useBigInt)
       IN IF buffer[1] \in UnknownMarkers
            THEN err = PROTOCOL_ERROR /\ taking = {}
          ELSE Cardinality(taking) = 1

\* C11: exactly-one-value consumption. On the bytes one pack call wrote, a
\* successful unpack leaves the cursor right after the last byte written,
\* for every value kind and size class; a first byte the marker table does
\* not list is refused with a decode error, and a listed one is taken by
\* exactly one branch of the cascade.
\* (Violated through C2's STRUCT_16 header: the decoder of a Structure of
\* 256 fields whose first field takes three bytes stops one field early.)
ExactlyOneValue ==
  /\ (RoundTripDone /\ err = NoError) => pos = Len(ch) + 1
  /\ MarkerTable

\* the same, for values that hold no Structure of 256 fields or more
ExactlyOneValueNarrow ==
  /\ (RoundTripDone /\ NarrowStructures(x)) => (err = NoError /\ pos = Len(ch) + 1)
  /\ MarkerTable

\* the markers of a header method: the tiny family (none for byte arrays),
\* then the *_8, *_16 and *_32 markers
HeaderMarkers(m) ==
  CASE m = "packString" -> <<128, 208, 209, 210>>
    [] m = "packListHeader" -> <<144, 212, 213, 214>>
    [] m = "packMapHeader" -> <<160, 216, 217, 218>>
    [] m = "packBytesHeader" -> <<-1, 204, 205, 206>>

\* every byte of bs after the marker is a byte
SizeBytes(bs) == \A i \in 2..Len(bs) : bs[i] \in 0..255

\* C12: size-class headers. For a size n, packString, packListHeader and
\* packMapHeader write the tiny marker (family + n) when n < 16, the *_8
\* marker and one size byte when n < 256, the *_16 marker and two size bytes
\* when n < 65536, the *_32 marker and four size bytes when n < 2^32, and
\* fail otherwise, writing nothing; packBytesHeader does the same without
\* the tiny form. Every size byte is in 0..255 and the size bytes read back
\* by readUInt8 / readUInt16 / readUInt32 are n, for STRING_16 and MAP_16
\* (high byte written without % 256) as well.
SizeClassHeaders ==
  op \in {"packString", "packListHeader", "packMapHeader", "packBytesHeader"}
    => LET n == headerSize
           mk == HeaderMarkers(op)
       IN IF n.hi = 0 /\ n.lo < 16 /\ op # "packBytesHeader"
            THEN pc = "header" /\ ch = <<mk[1] + n.lo>>
          ELSE IF n.hi = 0 /\ n.lo < 256
            THEN /\ pc = "header" /\ Len(ch) = 2 /\ ch[1] = mk[2]
                 /\ SizeBytes(ch) /\ readUInt8(ch, 2) = n
          ELSE IF n.hi = 0
            THEN /\ pc = "header" /\ Len(ch) = 3 /\ ch[1] = mk[3]
                 /\ SizeBytes(ch) /\ readUInt16(ch, 2) = n
          ELSE IF n.hi < 65536
            THEN /\ pc = "header" /\ Len(ch) = 5 /\ ch[1] = mk[4]
                 /\ SizeBytes(ch) /\ readUInt32(ch, 2) = n
          ELSE pc = "failed" /\ err # NoError /\ ch = <<>>

\* packMapHeader(0xFF00) wrote D9 FF 00
SizeClassHeadersWitness ==
  /\ op = "packMapHeader" /\ pc = "header"
  /\ headerSize = Size(65280) /\ ch = <<217, 255, 0>>

\* a step of the Packer that packs: packable, the call of the function it
\* returned, or a header method
PackStep == op' \in {"packable", "call"} \cup HeaderMethods /\ pc # pc'

\* C13: the Packer's flag is monotone and otherwise untouched. Byte-array
\* support starts enabled; no packable call, no call of a returned function
\* and no header method, successful or failing, changes the flag or the
\* channel the Packer holds; the flag only ever changes from enabled to
\* disabled, by disableByteArrays, and never back; a byte array packed
\* while it is disabled fails and is not written.
FlagMonotone ==
  /\ byteArraysSupported = TRUE
  /\ [][/\ PackStep => (byteArraysSupported' = byteArraysSupported
                          /\ channel' = channel)
        /\ byteArraysSupported' # byteArraysSupported
             => (byteArraysSupported /\ pc' = pc /\ op' = op /\ ch' = ch)
        /\ ~byteArraysSupported => ~byteArraysSupported'
        /\ channel' = channel
        /\ (~byteArraysSupported /\ pc = "created" /\ op' = "call" /\ x.t = "bytes")
             => (pc' = "failed" /\ ch' = ch)]_vars

\* after disableByteArrays and a message packed in between, a byte array was
\* refused and the flag is still disabled
FlagMonotoneWitness ==
  /\ ~byteArraysSupported /\ op = "call" /\ pc = "failed"
  /\ x = Bytes(<<1, -1, 127, -128>>) /\ ch = <<>>

====
